---- MODULE Spec2Model ----
(***************************************************************************)
(* A model of two components of the repository:                            *)
(*   - api/tasks/create_segment_to_index_task.py: the segment indexing     *)
(*     task, run by any number of workers on the same segment id;          *)
(*   - api/core/file/file_manager.py: the conversion of a File into a      *)
(*     prompt message content and into a URL.                              *)
(* The task is a state machine over the persisted segment row, the redis   *)
(* key segment_{id}_indexing and each invocation's position and ORM        *)
(* snapshot; the file functions are operators applied to bounded inputs.   *)
(***************************************************************************)
EXTENDS Integers, Sequences, FiniteSets, TLC

\* Number of deliveries of create_segment_to_index_task for the one segment id.
NumInvocations == 2

Invocations == 1..NumInvocations

VARIABLES
    segExists,   \* whether a DocumentSegment row with the id exists
    seg,         \* the persisted DocumentSegment row
    datasetExists, \* segment.dataset is not None
    docExists,   \* segment.document is not None
    doc,         \* the persisted dataset document row
    marker,      \* the redis key segment_{id}_indexing is present
    now,         \* the clock read by datetime.datetime.now
    pc,          \* each invocation's position in the task body
    snap,        \* each invocation's ORM object `segment` (loaded attributes)
    exc,         \* the exception an invocation is handling, "none" otherwise
    reraise,     \* an exception is propagating out of the except block
    observed,    \* the status an invocation's lookup read ("none" before it)
    path,        \* the exit path an invocation took
    entered,     \* the invocation's enter-indexing commit went through
    late,        \* the lookup ran after another run had committed indexing or returned early
    loads,       \* calls of index_processor.load, per invocation
    loadOutcome, \* how the invocation's call of load ended ("none" before it)
    deletes,     \* calls of redis_client.delete, per invocation
    closes,      \* calls of db.session.close, per invocation
    trans,       \* every change <<old, new>> of the persisted status so far
    file,        \* the File given to the file manager
    sendFormat,  \* dify_config.MULTIMODAL_SEND_FORMAT
    fpc,         \* position of the file manager call
    result       \* what the file manager call returned or raised

taskVars == <<segExists, seg, datasetExists, docExists, doc, marker, now, pc, snap,
              exc, reraise, observed, path, entered, late, loads, loadOutcome,
              deletes, closes, trans>>
fileVars == <<file, sendFormat, fpc, result>>
vars == <<segExists, seg, datasetExists, docExists, doc, marker, now, pc, snap,
          exc, reraise, observed, path, entered, late, loads, loadOutcome,
          deletes, closes, trans, file, sendFormat, fpc, result>>

----------------------------------------------------------------------------
(* The segment row.  A timestamp is 0 while it is NULL and the clock value  *)
(* of the write otherwise; error is "none" while it is NULL.                *)

IsSet(t) == t > 0

WaitingStatus == "waiting"
IndexingStatus == "indexing"
CompletedStatus == "completed"
ErrorStatus == "error"

Statuses == {WaitingStatus, IndexingStatus, CompletedStatus, ErrorStatus}

\* str(e) of the exceptions the try block can raise
ExcMessages == {"db_error", "doc_error", "factory_error", "load_error"}

\* A segment as the ingestion leaves it: waiting, enabled, nothing stamped.
NewSegment ==
    [status |-> WaitingStatus, indexing_at |-> 0, completed_at |-> 0,
     disabled_at |-> 0, enabled |-> TRUE, error |-> "none"]

\* The rows an invocation can find: a new segment, or a segment an earlier run
\* of the task (at clock 1) already moved on.
InitialSegments ==
    {NewSegment,
     [NewSegment EXCEPT !.status = IndexingStatus, !.indexing_at = 1],
     [NewSegment EXCEPT !.status = CompletedStatus, !.indexing_at = 1,
                        !.completed_at = 1],
     [NewSegment EXCEPT !.status = ErrorStatus, !.indexing_at = 1,
                        !.enabled = FALSE, !.disabled_at = 1,
                        !.error = "load_error"]}

Documents == [enabled : BOOLEAN, archived : BOOLEAN,
              indexing_status : {"completed", "indexing"}]

\* An invocation's ORM object: expired (nothing loaded), or the values it loaded
\* of the attributes the except block assigns.  disabled_at is left out: the
\* except block assigns it a fresh clock value, which no loaded value equals.
TrackedFields == {"status", "enabled", "error"}
NoSnapshot == [loaded |-> FALSE, row |-> [f \in TrackedFields |-> NewSegment[f]]]
Loaded(row) == [loaded |-> TRUE, row |-> [f \in TrackedFields |-> row[f]]]

\* The status change a write makes, if it makes one.
Change(old, new) == IF old = new THEN {} ELSE {<<old, new>>}

----------------------------------------------------------------------------
(* create_segment_to_index_task, one action per step between two points     *)
(* where another worker can run.                                            *)

\* the guard written as a test for "completed" only
PassesGuardUnlessCompleted(status) == status # CompletedStatus

\* line 33: the guard lets the invocation through
PassesGuard(status) == status = WaitingStatus

\* Another run has already committed indexing, or returned at the lookup: the
\* re-delivery case of the status guard.
AfterFirstRun(p) ==
    \E q \in Invocations \ {p} :
        entered[q] \/ path[q] \in {"not_found", "not_waiting"}

\* a lookup that takes the segment as found whatever the query gave
SegmentFoundAlways == TRUE

\* lines 27-28: the query gave a segment
SegmentFound == segExists

\* lines 27-35: the lookup, the not-found return and the status guard
Lookup(p) ==
    /\ pc[p] = "start"
    /\ \E raises \in BOOLEAN :
         IF raises
         THEN \* the query raises outside the try block: nothing catches it
              /\ pc' = [pc EXCEPT ![p] = "raised"]
              /\ path' = [path EXCEPT ![p] = "lookup_raised"]
              /\ UNCHANGED <<snap, observed, closes, late>>
         ELSE /\ late' = [late EXCEPT ![p] = AfterFirstRun(p)]
              /\ IF ~SegmentFound
                 THEN /\ pc' = [pc EXCEPT ![p] = "returned"]
                      /\ path' = [path EXCEPT ![p] = "not_found"]
                      /\ observed' = [observed EXCEPT ![p] = "absent"]
                      /\ closes' = [closes EXCEPT ![p] = @ + 1]
                      /\ UNCHANGED snap
                 ELSE IF ~PassesGuard(seg.status)
                 THEN /\ pc' = [pc EXCEPT ![p] = "returned"]
                      /\ path' = [path EXCEPT ![p] = "not_waiting"]
                      /\ observed' = [observed EXCEPT ![p] = seg.status]
                      /\ closes' = [closes EXCEPT ![p] = @ + 1]
                      /\ snap' = [snap EXCEPT ![p] = Loaded(seg)]
                 ELSE /\ pc' = [pc EXCEPT ![p] = "enter"]
                      /\ observed' = [observed EXCEPT ![p] = seg.status]
                      /\ snap' = [snap EXCEPT ![p] = Loaded(seg)]
                      /\ UNCHANGED <<path, closes>>
    /\ UNCHANGED <<segExists, seg, datasetExists, docExists, doc, marker, now,
                   exc, reraise, entered, loads, loadOutcome, deletes, trans>>
    /\ UNCHANGED fileVars

\* the enter-indexing update stamping indexing_at and leaving the status
EnterIndexingRowNoStatus(row, t) == [row EXCEPT !.indexing_at = t]

\* lines 41-46: the row after UPDATE ... SET status, indexing_at WHERE id
EnterIndexingRow(row, t) ==
    [row EXCEPT !.status = IndexingStatus, !.indexing_at = t]

\* lines 39-47: the enter-indexing update and its commit
EnterIndexing(p) ==
    /\ pc[p] = "enter"
    /\ \E outcome \in {"ok", "update_raises", "commit_raises"} :
         CASE outcome = "ok" ->
                /\ seg' = EnterIndexingRow(seg, now)
                /\ trans' = trans \cup Change(seg.status, seg'.status)
                /\ now' = now + 1
                /\ snap' = [snap EXCEPT ![p] = NoSnapshot]   \* expired by the commit
                /\ pc' = [pc EXCEPT ![p] = "build"]
                /\ entered' = [entered EXCEPT ![p] = TRUE]
                /\ UNCHANGED exc
           [] outcome = "update_raises" ->
                /\ exc' = [exc EXCEPT ![p] = "db_error"]
                /\ pc' = [pc EXCEPT ![p] = "handler"]
                /\ UNCHANGED <<seg, trans, now, snap, entered>>
           [] outcome = "commit_raises" ->
                /\ exc' = [exc EXCEPT ![p] = "db_error"]
                /\ snap' = [snap EXCEPT ![p] = NoSnapshot]   \* expired by the rollback
                /\ pc' = [pc EXCEPT ![p] = "handler"]
                /\ UNCHANGED <<seg, trans, now, entered>>
    /\ UNCHANGED <<segExists, datasetExists, docExists, doc, marker, reraise,
                   observed, path, late, loads, loadOutcome, deletes, closes>>
    /\ UNCHANGED fileVars

\* line 70: the document lets its segments be indexed
DocumentEligible(d) ==
    ~(~d.enabled \/ d.archived \/ d.indexing_status # "completed")

\* the ancestry checks without the test of the document's flags
AncestryValidIgnoringFlags == datasetExists /\ docExists

\* lines 60-72: the ancestry checks pass
AncestryValid == datasetExists /\ docExists /\ DocumentEligible(doc)

\* lines 48-72: the Document is built (segment.content reloads the expired
\* object) and the ancestry is validated
Build(p) ==
    /\ pc[p] = "build"
    /\ snap' = [snap EXCEPT ![p] = Loaded(seg)]
    /\ \E raises \in BOOLEAN :
         IF raises
         THEN /\ exc' = [exc EXCEPT ![p] = "doc_error"]
              /\ pc' = [pc EXCEPT ![p] = "handler"]
              /\ UNCHANGED path
         ELSE IF ~AncestryValid
         THEN /\ pc' = [pc EXCEPT ![p] = "finally"]
              /\ path' = [path EXCEPT ![p] = "skip"]
              /\ UNCHANGED exc
         ELSE /\ pc' = [pc EXCEPT ![p] = "load"]
              /\ UNCHANGED <<exc, path>>
    /\ UNCHANGED <<segExists, seg, datasetExists, docExists, doc, marker, now,
                   reraise, observed, entered, late, loads, loadOutcome, deletes,
                   closes, trans>>
    /\ UNCHANGED fileVars

\* lines 74-76: the index processor is made and load is called
Load(p) ==
    /\ pc[p] = "load"
    /\ \E outcome \in {"ok", "factory_raises", "load_raises"} :
         CASE outcome = "ok" ->
                /\ loads' = [loads EXCEPT ![p] = @ + 1]
                /\ loadOutcome' = [loadOutcome EXCEPT ![p] = "returned"]
                /\ pc' = [pc EXCEPT ![p] = "complete"]
                /\ UNCHANGED exc
           [] outcome = "factory_raises" ->
                /\ exc' = [exc EXCEPT ![p] = "factory_error"]
                /\ pc' = [pc EXCEPT ![p] = "handler"]
                /\ UNCHANGED <<loads, loadOutcome>>
           [] outcome = "load_raises" ->
                /\ loads' = [loads EXCEPT ![p] = @ + 1]
                /\ loadOutcome' = [loadOutcome EXCEPT ![p] = "raised"]
                /\ exc' = [exc EXCEPT ![p] = "load_error"]
                /\ pc' = [pc EXCEPT ![p] = "handler"]
    /\ UNCHANGED <<segExists, seg, datasetExists, docExists, doc, marker, now,
                   snap, reraise, observed, path, entered, late, deletes, closes,
                   trans>>
    /\ UNCHANGED fileVars

\* the completed update leaving completed_at out
CompleteRowNoStamp(row, t) == [row EXCEPT !.status = CompletedStatus]

\* lines 79-84: the row after UPDATE ... SET status, completed_at WHERE id
CompleteRow(row, t) ==
    [row EXCEPT !.status = CompletedStatus, !.completed_at = t]

\* lines 78-88: the completed update and its commit
Complete(p) ==
    /\ pc[p] = "complete"
    /\ \E outcome \in {"ok", "update_raises", "commit_raises"} :
         CASE outcome = "ok" ->
                /\ seg' = CompleteRow(seg, now)
                /\ trans' = trans \cup Change(seg.status, seg'.status)
                /\ now' = now + 1
                /\ snap' = [snap EXCEPT ![p] = NoSnapshot]
                /\ pc' = [pc EXCEPT ![p] = "finally"]
                /\ path' = [path EXCEPT ![p] = "success"]
                /\ UNCHANGED exc
           [] outcome = "update_raises" ->
                /\ exc' = [exc EXCEPT ![p] = "db_error"]
                /\ pc' = [pc EXCEPT ![p] = "handler"]
                /\ UNCHANGED <<seg, trans, now, snap, path>>
           [] outcome = "commit_raises" ->
                /\ exc' = [exc EXCEPT ![p] = "db_error"]
                /\ snap' = [snap EXCEPT ![p] = NoSnapshot]
                /\ pc' = [pc EXCEPT ![p] = "handler"]
                /\ UNCHANGED <<seg, trans, now, path>>
    /\ UNCHANGED <<segExists, datasetExists, docExists, doc, marker, reraise,
                   observed, entered, late, loads, loadOutcome, deletes, closes>>
    /\ UNCHANGED fileVars

\* the except block without line 91: the segment stays enabled
ErrorRowStillEnabled(row, t, message) ==
    [row EXCEPT !.disabled_at = t, !.status = ErrorStatus, !.error = message]

\* lines 91-94: the attributes the except block assigns to the ORM object
ErrorRow(row, t, message) ==
    [row EXCEPT !.enabled = FALSE, !.disabled_at = t, !.status = ErrorStatus,
                !.error = message]

\* line 95: the flush writes the assigned attributes whose value differs from
\* the one the object loaded; on an expired object it writes all of them
Flush(row, s, assigned) ==
    [f \in DOMAIN row |->
        IF f = "disabled_at"
           \/ (f \in TrackedFields /\ (~s.loaded \/ assigned[f] # s.row[f]))
        THEN assigned[f] ELSE row[f]]

\* lines 89-95: the except block and its commit
Handler(p) ==
    /\ pc[p] = "handler"
    /\ \E commit_raises \in BOOLEAN :
         IF commit_raises
         THEN \* raised inside the except block: it propagates after finally
              /\ reraise' = [reraise EXCEPT ![p] = TRUE]
              /\ UNCHANGED <<seg, trans, now, snap>>
         ELSE /\ seg' = Flush(seg, snap[p], ErrorRow(seg, now, exc[p]))
              /\ trans' = trans \cup Change(seg.status, seg'.status)
              /\ now' = now + 1
              /\ snap' = [snap EXCEPT ![p] = NoSnapshot]
              /\ UNCHANGED reraise
    /\ pc' = [pc EXCEPT ![p] = "finally"]
    /\ path' = [path EXCEPT ![p] = "exception"]
    /\ UNCHANGED <<segExists, datasetExists, docExists, doc, marker, exc,
                   observed, entered, late, loads, loadOutcome, deletes, closes>>
    /\ UNCHANGED fileVars

\* the delete as the last statement of the try block instead of the finally block
ReleasesMarkerOnSuccess(p) == path[p] = "success"

\* the delete skipped while an exception is propagating
ReleasesMarkerUnlessRaising(p) == ~reraise[p]

\* line 97: redis_client.delete(indexing_cache_key)
ReleasesMarker(p) == TRUE

\* the close left out when the ancestry checks made the task return
ClosesSessionUnlessSkipped(p) == path[p] # "skip"

\* line 98: db.session.close()
ClosesSession(p) == TRUE

\* lines 96-98: the finally block, then the return or the propagating exception
Finally(p) ==
    /\ pc[p] = "finally"
    /\ IF ReleasesMarker(p)
       THEN /\ marker' = FALSE
            /\ deletes' = [deletes EXCEPT ![p] = @ + 1]
       ELSE UNCHANGED <<marker, deletes>>
    /\ closes' = [closes EXCEPT ![p] = IF ClosesSession(p) THEN @ + 1 ELSE @]
    /\ pc' = [pc EXCEPT ![p] = IF reraise[p] THEN "raised" ELSE "returned"]
    /\ UNCHANGED <<segExists, seg, datasetExists, docExists, doc, now, snap, exc,
                   reraise, observed, path, entered, late, loads, loadOutcome, trans>>
    /\ UNCHANGED fileVars

\* the worker process dies inside the try block: neither the except block nor
\* the finally block runs, and the invocation's local state is gone
Crash(p) ==
    /\ pc[p] \in {"enter", "build", "load", "complete", "handler", "finally"}
    /\ pc' = [pc EXCEPT ![p] = "crashed"]
    /\ snap' = [snap EXCEPT ![p] = NoSnapshot]
    /\ exc' = [exc EXCEPT ![p] = "none"]
    /\ reraise' = [reraise EXCEPT ![p] = FALSE]
    /\ UNCHANGED <<segExists, seg, datasetExists, docExists, doc, marker, now,
                   observed, path, entered, late, loads, loadOutcome, deletes,
                   closes, trans>>
    /\ UNCHANGED fileVars

----------------------------------------------------------------------------

(* core/file/file_manager.py.  A string is a sequence of pieces (<<>> is the  *)
(* empty string), an optional attribute a record that says whether it is    *)
(* set; bytes are numbers 0..255.                                           *)

None == [some |-> FALSE, val |-> <<>>]
Some(v) == [some |-> TRUE, val |-> v]

\* Python truthiness of an optional string: neither None nor ""
Truthy(o) == o.some /\ o.val # <<>>

\* FileType: the four types of prompt_class_map and one it does not hold
SupportedTypes == {"image", "audio", "video", "document"}
FileTypes == SupportedTypes \cup {"custom"}

TransferMethods == {"remote_url", "local_file", "tool_file"}

Extensions == {None, Some(<<".", "png">>), Some(<<"pdf">>)}
MimeTypes == {None, Some(<<"image/png">>)}
RemoteUrls == {None, Some(<<>>), Some(<<"https://example.com/a.png">>)}
RelatedIds == {None, Some(<<"abc">>)}
Filenames == {<<"a.png">>, <<"report">>}

Files ==
    [type : FileTypes, filename : Filenames, extension : Extensions,
     mime_type : MimeTypes, transfer_method : TransferMethods,
     remote_url : RemoteUrls, related_id : RelatedIds]

\* what storage.load or the HTTP response body holds
Contents == {<<>>, <<77>>, <<77, 97>>, <<77, 97, 110>>, <<77, 97, 110, 33>>}

SendFormats == {"base64", "url"}
DetailConfigs == {None, Some("high"), Some("low")}

\* str.removeprefix
RemovePrefix(str, prefix) ==
    IF Len(str) > 0 /\ Head(str) = prefix THEN Tail(str) ELSE str

\* base64.b64encode: the sextets of every three bytes, 64 standing for "="
RECURSIVE B64Encode(_)
B64Encode(data) ==
    IF data = <<>> THEN <<>>
    ELSE LET n == Len(data)
             b2 == IF n >= 2 THEN data[2] ELSE 0
             b3 == IF n >= 3 THEN data[3] ELSE 0
             v == data[1] * 65536 + b2 * 256 + b3
             s1 == v \div 262144
             s2 == (v \div 4096) % 64
             s3 == (v \div 64) % 64
             s4 == v % 64
         IN  IF n = 1 THEN <<s1, s2, 64, 64>>
             ELSE IF n = 2 THEN <<s1, s2, s3, 64>>
             ELSE <<s1, s2, s3, s4>> \o B64Encode(SubSeq(data, 4, n))

Raised(message) ==
    [kind |-> "raise", message |-> message, data |-> <<>>, base64_data |-> <<>>,
     url |-> <<>>, format |-> <<>>, mime_type |-> <<>>, detail |-> "none"]
Returned(kind) ==
    [kind |-> kind, message |-> "none", data |-> <<>>, base64_data |-> <<>>,
     url |-> <<>>, format |-> <<>>, mime_type |-> <<>>, detail |-> "none"]
NoResult == Returned("none")

\* helpers.get_signed_file_url and sign_tool_file, as the values they are given
SignedFileUrl(upload_file_id) == <<"signed_file_url", upload_file_id>>
SignedToolFile(tool_file_id, extension) == <<"signed_tool_file", tool_file_id>> \o extension

\* a LOCAL_FILE whose pre-set URL is ignored: the URL is always derived
LocalFileUrlAlwaysSigned(f) ==
    IF ~f.related_id.some THEN Raised("Missing file related_id")
    ELSE [Returned("url") EXCEPT !.url = SignedFileUrl(f.related_id.val[1])]

\* lines 149-152: _to_url of a LOCAL_FILE
LocalFileUrl(f) ==
    IF ~f.related_id.some THEN Raised("Missing file related_id")
    ELSE [Returned("url") EXCEPT !.url =
             IF Truthy(f.remote_url) THEN f.remote_url.val
             ELSE SignedFileUrl(f.related_id.val[1])]

\* lines 144-159: _to_url
ToUrl(f) ==
    IF f.transfer_method = "remote_url"
    THEN IF ~f.remote_url.some THEN Raised("Missing file remote_url")
         ELSE [Returned("url") EXCEPT !.url = f.remote_url.val]
    ELSE IF f.transfer_method = "local_file"
    THEN LocalFileUrl(f)
    ELSE IF f.transfer_method = "tool_file"
    THEN IF ~f.related_id.some \/ ~f.extension.some
         THEN Raised("Missing file related_id or extension")
         ELSE [Returned("url") EXCEPT !.url =
                  SignedToolFile(f.related_id.val[1], f.extension.val)]
    ELSE Raised("Unsupported transfer method")

\* lines 129-141: _get_encoded_string; fetched says whether the storage or the
\* HTTP request gave bytes, content is what it gave
GetEncodedString(f, fetched, content) ==
    IF f.transfer_method = "remote_url" /\ ~f.remote_url.some
    THEN Raised("request failed")
    ELSE IF ~fetched
    THEN Raised(IF f.transfer_method = "remote_url" THEN "request failed"
                ELSE "file is not a bytes object")
    ELSE [Returned("base64") EXCEPT !.base64_data = B64Encode(content)]

\* the unsupported type rejected with an error
UnsupportedRaises(f) == Raised("Unsupported file type")

\* lines 80-83: the text that stands for a file of an unsupported type
UnsupportedText(f) ==
    [Returned("text") EXCEPT
        !.data = <<"[Unsupported file type: ">> \o f.filename \o <<" (", f.type, ")]">>]

\* lines 68-71: the attributes to_prompt_message_content requires
MissingAttribute(f) ==
    IF ~f.extension.some THEN Raised("Missing file extension")
    ELSE IF ~f.mime_type.some THEN Raised("Missing file mime_type")
    ELSE NoResult

\* the payload of a supported type with both fields filled, whatever the
\* send format
SupportedContentBothFilled(f, format, detail, fetched, content) ==
    LET encoded == GetEncodedString(f, fetched, content)
        url == ToUrl(f)
    IN  IF encoded.kind = "raise" THEN encoded
        ELSE IF url.kind = "raise" THEN url
        ELSE [Returned(f.type) EXCEPT
                 !.base64_data = encoded.base64_data,
                 !.url = url.url,
                 !.format = RemovePrefix(f.extension.val, "."),
                 !.mime_type = f.mime_type.val,
                 !.detail = IF f.type # "image" THEN "none"
                            ELSE IF detail.some THEN detail.val ELSE "low"]

\* lines 85-95: the payload of a supported type
SupportedContent(f, format, detail, fetched, content) ==
    LET encoded == IF format = "base64" THEN GetEncodedString(f, fetched, content)
                   ELSE Returned("base64")
        url == IF format = "url" THEN ToUrl(f) ELSE Returned("url")
    IN  IF encoded.kind = "raise" THEN encoded
        ELSE IF url.kind = "raise" THEN url
        ELSE [Returned(f.type) EXCEPT
                 !.base64_data = encoded.base64_data,
                 !.url = url.url,
                 !.format = RemovePrefix(f.extension.val, "."),
                 !.mime_type = f.mime_type.val,
                 !.detail = IF f.type # "image" THEN "none"
                            ELSE IF detail.some THEN detail.val ELSE "low"]

\* lines 42-95: to_prompt_message_content
ToPromptMessageContent(f, format, detail, fetched, content) ==
    IF MissingAttribute(f).kind = "raise" THEN MissingAttribute(f)
    ELSE IF f.type \notin SupportedTypes THEN UnsupportedText(f)
    ELSE SupportedContent(f, format, detail, fetched, content)

\* a caller converts the file into a prompt message content
CallToPromptMessageContent ==
    /\ fpc = "idle"
    /\ \E detail \in DetailConfigs, fetched \in BOOLEAN, content \in Contents :
         result' = ToPromptMessageContent(file, sendFormat, detail, fetched, content)
    /\ fpc' = "to_prompt_message_content"
    /\ UNCHANGED <<file, sendFormat>>
    /\ UNCHANGED taskVars

\* a caller asks for the file's URL
CallToUrl ==
    /\ fpc = "idle"
    /\ result' = ToUrl(file)
    /\ fpc' = "to_url"
    /\ UNCHANGED <<file, sendFormat>>
    /\ UNCHANGED taskVars

----------------------------------------------------------------------------

NoFile ==
    [type |-> "custom", filename |-> <<"a.png">>, extension |-> None,
     mime_type |-> None, transfer_method |-> "remote_url", remote_url |-> None,
     related_id |-> None]

\* no delivery of the task: the state the file manager's callers run in
NoTask ==
    /\ segExists = FALSE
    /\ seg = NewSegment
    /\ datasetExists = FALSE
    /\ docExists = FALSE
    /\ doc = [enabled |-> TRUE, archived |-> FALSE, indexing_status |-> "completed"]
    /\ marker = FALSE
    /\ now = 2
    /\ pc = [p \in Invocations |-> "returned"]
    /\ snap = [p \in Invocations |-> NoSnapshot]
    /\ exc = [p \in Invocations |-> "none"]
    /\ reraise = [p \in Invocations |-> FALSE]
    /\ observed = [p \in Invocations |-> "none"]
    /\ path = [p \in Invocations |-> "none"]
    /\ entered = [p \in Invocations |-> FALSE]
    /\ late = [p \in Invocations |-> FALSE]
    /\ loads = [p \in Invocations |-> 0]
    /\ loadOutcome = [p \in Invocations |-> "none"]
    /\ deletes = [p \in Invocations |-> 0]
    /\ closes = [p \in Invocations |-> 0]
    /\ trans = {}

InitFile ==
    /\ NoTask
    /\ file \in Files
    /\ sendFormat \in SendFormats
    /\ fpc = "idle"
    /\ result = NoResult

NextFile == CallToPromptMessageContent \/ CallToUrl

SpecFile == InitFile /\ [][NextFile]_vars

Init ==
    /\ segExists \in BOOLEAN
    /\ seg \in (IF segExists THEN InitialSegments ELSE {NewSegment})
    /\ datasetExists \in BOOLEAN
    /\ docExists \in BOOLEAN
    /\ doc \in (IF docExists THEN Documents
                ELSE {[enabled |-> TRUE, archived |-> FALSE,
                       indexing_status |-> "completed"]})
    /\ marker = TRUE      \* set by the enqueuer before the delivery
    /\ now = 2
    /\ pc = [p \in Invocations |-> "start"]
    /\ snap = [p \in Invocations |-> NoSnapshot]
    /\ exc = [p \in Invocations |-> "none"]
    /\ reraise = [p \in Invocations |-> FALSE]
    /\ observed = [p \in Invocations |-> "none"]
    /\ path = [p \in Invocations |-> "none"]
    /\ entered = [p \in Invocations |-> FALSE]
    /\ late = [p \in Invocations |-> FALSE]
    /\ loads = [p \in Invocations |-> 0]
    /\ loadOutcome = [p \in Invocations |-> "none"]
    /\ deletes = [p \in Invocations |-> 0]
    /\ closes = [p \in Invocations |-> 0]
    /\ trans = {}
    /\ file = NoFile
    /\ sendFormat = "url"
    /\ fpc = "idle"
    /\ result = NoResult

Next ==
    \E p \in Invocations :
        \/ Lookup(p)
        \/ EnterIndexing(p)
        \/ Build(p)
        \/ Load(p)
        \/ Complete(p)
        \/ Handler(p)
        \/ Finally(p)
        \/ Crash(p)

Spec == Init /\ [][Next]_vars

\* The deliveries run one after another: an invocation takes a step only while
\* no other invocation is inside the task body.
Idle(q) == pc[q] \in {"start", "returned", "raised", "crashed"}

Alone(p) == \A q \in Invocations \ {p} : Idle(q)

NextSeq ==
    \E p \in Invocations :
        \/ Alone(p) /\ Lookup(p)
        \/ Alone(p) /\ EnterIndexing(p)
        \/ Alone(p) /\ Build(p)
        \/ Alone(p) /\ Load(p)
        \/ Alone(p) /\ Complete(p)
        \/ Alone(p) /\ Handler(p)
        \/ Alone(p) /\ Finally(p)
        \/ Alone(p) /\ Crash(p)

SpecSeq == Init /\ [][NextSeq]_vars

----------------------------------------------------------------------------
(* Properties of create_segment_to_index_task.                              *)

\* the invocation is over: it returned, or an exception left the task body
Exited(p) == pc[p] \in {"returned", "raised"}

\* the invocation's lookup read "waiting", so it went past the status guard
PastGuard(p) == observed[p] = WaitingStatus

\* C1: whatever the interleaving of the deliveries for one segment id, at most
\* one invocation gets past the status guard and calls index_processor.load.
C1_AtMostOneLoad ==
    Cardinality({p \in Invocations : loads[p] > 0}) <= 1

\* C2: the persisted status only moves forward along waiting -> indexing ->
\* {completed, error}: whatever the interleaving, no write moves it backward
\* (completed->indexing, error->indexing, anything->waiting) and none moves it
\* from one terminal status to the other (completed->error, error->completed).
C2_ForwardOnly ==
    trans \cap ({<<CompletedStatus, IndexingStatus>>, <<ErrorStatus, IndexingStatus>>,
                 <<CompletedStatus, ErrorStatus>>, <<ErrorStatus, CompletedStatus>>}
                \cup {<<st, WaitingStatus>> : st \in Statuses}) = {}

\* C3: an invocation on a segment whose status is not "waiting" is a no-op:
\* its first step ends it, and the segment row, the ancestry, the marker, the
\* clock and the calls of load are as they were.
C3_NotWaitingIsNoOp ==
    [][\A p \in Invocations :
          (/\ pc[p] = "start"
           /\ pc'[p] # "start"
           /\ segExists
           /\ seg.status # WaitingStatus)
          => (/\ Exited(p)'
              /\ seg' = seg
              /\ segExists' = segExists
              /\ <<datasetExists', docExists', doc'>> = <<datasetExists, docExists, doc>>
              /\ marker' = marker
              /\ loads' = loads
              /\ now' = now)]_vars

\* C3 witness: an invocation read a status other than "waiting" and returned.
C3_Witness ==
    \E p \in Invocations :
        /\ observed[p] \in {IndexingStatus, CompletedStatus, ErrorStatus}
        /\ pc[p] = "returned"
        /\ loads[p] = 0

\* C4 as claimed: an invocation on a waiting segment in which load returned
\* without raising ends with status "completed", completed_at set, error unset,
\* enabled and disabled_at untouched.
C4_LoadReturnedEndsCompleted ==
    \A p \in Invocations :
        (Exited(p) /\ loadOutcome[p] = "returned")
        => (/\ seg.status = CompletedStatus
            /\ IsSet(seg.completed_at)
            /\ seg.error = "none"
            /\ seg.enabled /\ ~IsSet(seg.disabled_at))

\* C4: an invocation on a waiting segment that runs alone, in which load
\* returned without raising and the completed update and its commit went
\* through, ends with status "completed", completed_at set, error unset,
\* enabled and disabled_at untouched.
C4_CommittedEndsCompleted ==
    \A p \in Invocations :
        (Exited(p) /\ loadOutcome[p] = "returned" /\ path[p] = "success")
        => (/\ pc[p] = "returned"
            /\ seg.status = CompletedStatus
            /\ IsSet(seg.completed_at)
            /\ seg.error = "none"
            /\ seg.enabled /\ ~IsSet(seg.disabled_at))

\* C4 witness: an invocation found the segment waiting, load returned, the
\* completed commit went through and the invocation returned.
C4_Witness ==
    \E p \in Invocations :
        /\ PastGuard(p) /\ loadOutcome[p] = "returned" /\ path[p] = "success"
        /\ pc[p] = "returned"

C6_MarkerDeletedOnce ==
    \A p \in Invocations :
        /\ deletes[p] <= 1
        /\ (PastGuard(p) /\ Exited(p)) => (deletes[p] = 1 /\ ~marker)
        /\ ~Exited(p) => deletes[p] = 0

\* C6 witness: one invocation left by the ancestry skip and another by the
\* except block; each deleted the marker once, the later one finding it absent.
C6_Witness ==
    \E p, q \in Invocations :
        /\ path[p] = "skip" /\ pc[p] = "returned" /\ deletes[p] = 1
        /\ path[q] = "exception" /\ Exited(q) /\ deletes[q] = 1

\* C7 as claimed: on every return of the task, the early returns (segment not
\* found, status not "waiting") included, the marker has been deleted.
C7_ReleasedOnEveryReturn ==
    \A p \in Invocations : pc[p] = "returned" => deletes[p] >= 1

\* C7: an invocation that leaves after the status guard (success, ancestry
\* skip, exception) deletes the marker in the step that leaves; one that leaves
\* at the lookup (segment not found, status not "waiting", lookup raising)
\* leaves the marker as it was and deletes nothing.
C7_ReleasedAfterGuardOnly ==
    [][\A p \in Invocations :
          (~Exited(p) /\ Exited(p)')
          => IF pc[p] = "start"
             THEN marker' = marker /\ deletes'[p] = 0
             ELSE ~marker' /\ deletes'[p] = 1]_vars

\* C7 witness: an invocation returned at the status guard and the marker set
\* by the enqueuer is still there.
C7_Witness ==
    \E p \in Invocations :
        /\ path[p] = "not_waiting" /\ pc[p] = "returned"
        /\ deletes[p] = 0 /\ marker

\* C8: the task never raises past its own boundary: whichever step fails, the
\* lookup and the commit of the except block included, the invocation returns
\* and the failure is in the segment's status and error.
C8_NeverRaises ==
    \A p \in Invocations :
        /\ pc[p] # "raised"
        /\ (pc[p] = "returned" /\ path[p] = "exception")
           => (seg.status = ErrorStatus /\ seg.error \in ExcMessages)

\* C9: a second run whose lookup comes after the first run's enter-indexing
\* commit, or after the first run returned at the lookup, changes no field of
\* the segment, never calls load and returns in that step, so that load is
\* called at most once across the two runs.
C9_RedeliveryIsNoOp ==
    [][\A p \in Invocations :
          (late'[p] /\ pc'[p] # pc[p])
          => (/\ seg' = seg
              /\ segExists' = segExists
              /\ pc'[p] = "returned"
              /\ loads'[p] = 0
              /\ \A q \in Invocations \ {p} : loads'[p] + loads'[q] <= 1)]_vars

\* C9 witness: the first run called load once; the second run, delivered
\* after the first one's enter-indexing commit, returned without calling it.
C9_Witness ==
    \E p, q \in Invocations :
        /\ p # q
        /\ entered[q] /\ loads[q] = 1
        /\ late[p] /\ pc[p] = "returned" /\ loads[p] = 0

----------------------------------------------------------------------------
(* Properties of the file manager.                                          *)

\* the pieces of `part` occur in `whole`, in a row
Contains(whole, part) ==
    \E i \in 1..(Len(whole) - Len(part) + 1) :
        SubSeq(whole, i, i + Len(part) - 1) = part

\* the result is the text payload naming the file and its type
IsUnsupportedText(f, r) ==
    /\ r.kind = "text"
    /\ Contains(r.data, f.filename)
    /\ Contains(r.data, <<f.type>>)

\* C10 as claimed: to_prompt_message_content of a file whose type is none of
\* image, audio, video, document returns a text payload with the file's name
\* and type and does not raise, whatever extension and mime_type are.
C10_UnsupportedNeverRaises ==
    (fpc = "to_prompt_message_content" /\ file.type \notin SupportedTypes)
    => IsUnsupportedText(file, result)

\* C10: to_prompt_message_content of a file whose type is none of image,
\* audio, video, document and whose extension and mime_type are both set
\* returns a text payload with the file's name and type and does not raise;
\* with either of them missing it raises the value error.
C10_UnsupportedWithAttributes ==
    (fpc = "to_prompt_message_content" /\ file.type \notin SupportedTypes)
    => IF file.extension.some /\ file.mime_type.some
       THEN IsUnsupportedText(file, result)
       ELSE result.kind = "raise"

\* C10 witness: a file of an unsupported type, extension and mime_type set,
\* was converted into the text payload.
C10_Witness ==
    /\ fpc = "to_prompt_message_content"
    /\ file.type \notin SupportedTypes
    /\ file.extension.some /\ file.mime_type.some
    /\ result.kind = "text"

\* C11 as claimed: _to_url of a LOCAL_FILE returns the pre-set URL whenever
\* one is set; only with none pre-set it derives the URL from related_id, and
\* it raises only when that derivation is needed and related_id is absent.
C11_PresetUrlAlwaysReturned ==
    (fpc = "to_url" /\ file.transfer_method = "local_file")
    => IF Truthy(file.remote_url)
       THEN result.kind = "url" /\ result.url = file.remote_url.val
       ELSE IF file.related_id.some
       THEN result.kind = "url"
            /\ result.url = SignedFileUrl(file.related_id.val[1])
       ELSE result.kind = "raise"

\* C11: _to_url of a LOCAL_FILE raises the value error whenever related_id is
\* absent, a URL pre-set or not; with related_id present it returns the
\* pre-set URL when that is a non-empty string and otherwise the URL derived
\* from get_signed_file_url(upload_file_id=related_id).
C11_RelatedIdCheckedFirst ==
    (fpc = "to_url" /\ file.transfer_method = "local_file")
    => IF ~file.related_id.some
       THEN result.kind = "raise" /\ result.message = "Missing file related_id"
       ELSE IF file.remote_url.some /\ file.remote_url.val # <<>>
       THEN result.kind = "url" /\ result.url = file.remote_url.val
       ELSE result.kind = "url"
            /\ result.url = SignedFileUrl(file.related_id.val[1])

\* C11 witness: _to_url returned the pre-set URL of a LOCAL_FILE that has a
\* related_id.
C11_Witness ==
    /\ fpc = "to_url"
    /\ file.transfer_method = "local_file"
    /\ file.related_id.some
    /\ Truthy(file.remote_url)
    /\ result.kind = "url" /\ result.url = file.remote_url.val

\* to_prompt_message_content returned the payload of a supported type
PayloadReturned ==
    /\ fpc = "to_prompt_message_content"
    /\ file.type \in SupportedTypes
    /\ file.extension.some /\ file.mime_type.some
    /\ result.kind = file.type

\* C12 as claimed: in the payload of a file of a supported type with
\* extension and mime_type set, under the "url" send format url is non-empty
\* and base64_data is empty, and under the "base64" send format base64_data
\* is non-empty and url is empty.
C12_SelectedFieldPopulated ==
    PayloadReturned
    => IF sendFormat = "url"
       THEN result.url # <<>> /\ result.base64_data = <<>>
       ELSE result.base64_data # <<>> /\ result.url = <<>>

\* C12: in the payload of a file of a supported type with extension and
\* mime_type set, base64_data and url are never both non-empty: under the
\* "url" send format base64_data is empty and url is what _to_url gives for
\* the file, under the "base64" send format url is empty and base64_data is
\* the base64 text of the file's content, which is empty only for an empty
\* content.
C12_OnlySelectedFieldFilled ==
    PayloadReturned
    => /\ ~(result.url # <<>> /\ result.base64_data # <<>>)
       /\ IF sendFormat = "url"
          THEN /\ result.base64_data = <<>>
               /\ ToUrl(file).kind = "url"
               /\ result.url = ToUrl(file).url
          ELSE /\ result.url = <<>>
               /\ \E content \in Contents :
                     /\ result.base64_data = B64Encode(content)
                     /\ (result.base64_data = <<>>) <=> (content = <<>>)

\* C12 witness: a payload under the "base64" send format, base64_data filled
\* and url empty.
C12_Witness ==
    /\ PayloadReturned
    /\ sendFormat = "base64"
    /\ result.base64_data # <<>>
    /\ result.url = <<>>

(***************************************************************************)
(* Properties of the indexing task, continued.                             *)
(***************************************************************************)

\* the dataset or the document is missing, or the document is disabled,
\* archived or not completely indexed
AncestryFails ==
    \/ ~datasetExists
    \/ ~docExists
    \/ ~doc.enabled
    \/ doc.archived
    \/ doc.indexing_status # "completed"

\* no invocation but p has read the segment as waiting
OnlyPastGuard(p) == \A q \in Invocations \ {p} : ~PastGuard(q)

\* C13: an invocation that has promoted the segment and finds the ancestry
\* failing goes to its return without calling load and without writing the
\* segment; with no other invocation at work on the segment, the segment is
\* then indexing, enabled, with no disabled_at, error or completed_at.
C13_SkipChangesNothing ==
    [][\A p \in Invocations :
         /\ (pc[p] = "build" /\ AncestryFails
               /\ pc'[p] \notin {"build", "handler", "crashed"})
            => /\ pc'[p] = "finally" /\ path'[p] = "skip"
               /\ seg' = seg /\ loads' = loads /\ loads[p] = 0
         /\ (pc[p] = "finally" /\ path[p] = "skip" /\ pc'[p] # "finally")
            => /\ pc'[p] \in {"returned", "crashed"}
               /\ seg' = seg /\ loads' = loads /\ loads[p] = 0
               /\ OnlyPastGuard(p)
                  => /\ seg.status = IndexingStatus
                     /\ seg.enabled /\ seg.error = "none"
                     /\ ~IsSet(seg.disabled_at) /\ ~IsSet(seg.completed_at)
    ]_vars

\* C13 witness: an invocation promoted the segment, found the ancestry
\* failing and returned; the segment is indexing and load was not called.
C13_Witness ==
    \E p \in Invocations :
        /\ pc[p] = "returned" /\ path[p] = "skip" /\ entered[p]
        /\ AncestryFails
        /\ loads[p] = 0
        /\ seg.status = IndexingStatus /\ seg.error = "none"

\* C14: an invocation is at the document construction, the ancestry checks,
\* load or the completing update, or has called load, only after its
\* enter-indexing commit; and from that commit on, a crash included, the
\* stored status is not waiting and indexing_at is set.
C14_EnterCommittedFirst ==
    \A p \in Invocations :
        /\ (pc[p] \in {"build", "load", "complete"} \/ loads[p] > 0)
           => entered[p]
        /\ entered[p]
           => seg.status # WaitingStatus /\ IsSet(seg.indexing_at)

\* C14 witness: a worker crashed after load was called and before the
\* completing commit; the stored status is indexing.
C14_Witness ==
    \E p \in Invocations :
        /\ pc[p] = "crashed" /\ entered[p]
        /\ loads[p] = 1 /\ path[p] = "none"
        /\ seg.status = IndexingStatus

\* C15 as claimed: over any interleaving of deliveries, indexing_at,
\* completed_at and disabled_at are each written at most once: a timestamp
\* that is set is not overwritten by any step.
C15_TimestampsWrittenOnce ==
    [][/\ IsSet(seg.indexing_at) => seg'.indexing_at = seg.indexing_at
       /\ IsSet(seg.completed_at) => seg'.completed_at = seg.completed_at
       /\ IsSet(seg.disabled_at) => seg'.disabled_at = seg.disabled_at
    ]_vars

\* C16 as claimed: an invocation that has promoted a waiting segment and
\* returns leaves the stored status completed or error, never indexing.
C16_ReturnsInTerminalStatus ==
    \A p \in Invocations :
        (entered[p] /\ pc[p] = "returned")
        => seg.status \in {CompletedStatus, ErrorStatus}

\* the worker of p crashed after its enter-indexing commit and before a
\* completing or error commit
CrashedBetweenCommits(p) ==
    pc[p] = "crashed" /\ entered[p] /\ path[p] \in {"none", "skip"}

\* C17: once a worker has crashed between its enter-indexing commit and a
\* terminal commit, and no other invocation had read the segment as waiting,
\* the status is indexing in every later state, the crashed invocation has
\* not deleted the marker, and every invocation whose lookup comes afterwards
\* returns at the status guard without calling load and without deleting the
\* marker.
C17_CrashLeavesIndexing ==
    \A p \in Invocations :
        (CrashedBetweenCommits(p) /\ OnlyPastGuard(p))
        => /\ seg.status = IndexingStatus
           /\ deletes[p] = 0
           /\ \A q \in Invocations \ {p} :
                 (late[q] /\ pc[q] # "start")
                 => /\ pc[q] = "returned" /\ path[q] = "not_waiting"
                    /\ loads[q] = 0 /\ deletes[q] = 0

\* C17 witness: a worker crashed between the two commits and a later
\* delivery has come and gone; the segment is still indexing.
C17_Witness ==
    \E p \in Invocations, q \in Invocations :
        /\ p # q
        /\ CrashedBetweenCommits(p) /\ OnlyPastGuard(p)
        /\ late[q] /\ pc[q] = "returned" /\ path[q] = "not_waiting"
        /\ seg.status = IndexingStatus
        /\ marker

\* C18 as claimed: in every state reached by any interleaving of deliveries,
\* enabled = false, disabled_at and error are set all together or not at all,
\* and the segment carries an error message exactly when its status is error.
C18_FailureFieldsAgree ==
    /\ (~seg.enabled) <=> IsSet(seg.disabled_at)
    /\ IsSet(seg.disabled_at) <=> (seg.error # "none")
    /\ (seg.error # "none") <=> (seg.status = ErrorStatus)

\* C19: an invocation whose lookup finds no segment returns in that step
\* with segment, document, dataset and marker as they were, with no load and
\* no marker deletion and no exception recorded; while no segment exists no
\* invocation ever calls load, deletes the marker or gets past the lookup.
C19_NotFoundIsNoOp ==
    [][\A p \in Invocations :
         /\ (pc[p] = "start" /\ ~segExists /\ pc'[p] \notin {"start", "raised"})
            => /\ pc'[p] = "returned" /\ path'[p] = "not_found"
               /\ UNCHANGED <<segExists, seg, datasetExists, docExists, doc>>
               /\ UNCHANGED <<marker, loads, deletes, exc, entered, trans>>
         /\ ~segExists'
            => /\ marker' /\ ~entered'[p] /\ exc'[p] = "none"
               /\ loads'[p] = 0 /\ deletes'[p] = 0
               /\ pc'[p] \in {"start", "raised", "returned"}
    ]_vars

\* C19 witness: an invocation found no segment and returned; the marker is
\* still there and nothing was loaded or deleted.
C19_Witness ==
    \E p \in Invocations :
        /\ ~segExists
        /\ pc[p] = "returned" /\ path[p] = "not_found"
        /\ marker /\ loads[p] = 0 /\ deletes[p] = 0 /\ closes[p] = 1

\* the exit paths of the task: segment not found, status not waiting,
\* success, ancestry skip, exception caught by the except block
ExitPaths == {"not_found", "not_waiting", "success", "skip", "exception"}

====
